---- MODULE Spec2Model ----
(***************************************************************************)
(* The text-based job status checker of qiskit/tools/monitor/job_monitor.py *)
(* as a state machine.  One session is one call job_monitor(job, interval,  *)
(* quiet, output, line_discipline).  The session is single threaded; its    *)
(* steps are the calls it makes on its collaborators (job.status(),         *)
(* time.sleep(), job.queue_position(), print(..., file=output)), each       *)
(* followed by the local computation up to the next such call.              *)
(*                                                                          *)
(* The job is external: every status() call returns some status, every      *)
(* queue_position() call returns some position (an integer or None), and    *)
(* any call on the job or on the output may raise.  A print call is one     *)
(* write: its text followed by its end.                                     *)
(***************************************************************************)
EXTENDS Integers, Sequences, FiniteSets, TLC

VARIABLES
    pc,              \* the next call the session makes, or "Finished" / "Raised"
    arg_interval,    \* job_monitor's interval argument: None or <<v>>
    quiet,           \* job_monitor's quiet argument
    has_qp,          \* hasattr(job, "queue_position")
    line_discipline, \* job_monitor's line_discipline argument
    interval,        \* _text_checker's local interval
    interval_set,    \* _text_checker's _interval_set
    status,          \* _text_checker's local status: [name, value]
    msg,             \* _text_checker's local msg
    prev_msg,        \* _text_checker's local prev_msg
    msg_len,         \* _text_checker's local msg_len
    job_pos,         \* the job's queue position as of its last answer
    raised,          \* the exception that left the session, "none" if none
    trace            \* every call made so far on job, sleep and output, in order

vars == <<pc, arg_interval, quiet, has_qp, line_discipline, interval,
          interval_set, status, msg, prev_msg, msg_len, job_pos, raised, trace>>

----------------------------------------------------------------------------
(* Bounds of the model and the inputs it draws from. *)

\* the job answers at most MaxQueries status queries; the last one is terminal
MaxQueries == 4

\* Python's None, and an optional value v as <<v>>
None == <<>>
Some(v) == <<v>>

\* the queue positions a job reports
Positions == {None, Some(1), Some(3)}

\* the interval arguments a caller passes
IntervalArgs == {None, Some(7)}

\* the line_discipline arguments a caller passes
LineDisciplines == {"\r", "\n"}

----------------------------------------------------------------------------
(* qiskit.providers.jobstatus.JobStatus: the statuses job.status() returns. *)

\* (INITIALIZING and VALIDATING, the other two members, take the same path
\* through _text_checker as RUNNING and are left out.)
JobStatus ==
    { [name |-> "QUEUED",    value |-> "job is queued"],
      [name |-> "RUNNING",   value |-> "job is actively running"],
      [name |-> "CANCELLED", value |-> "job has been cancelled"],
      [name |-> "DONE",      value |-> "job has successfully run"],
      [name |-> "ERROR",     value |-> "job incurred error"] }

\* qiskit.providers.jobstatus.JOB_FINAL_STATES: a job in one of these never
\* changes status again
JOB_FINAL_STATES == {"DONE", "CANCELLED", "ERROR"}

\* the locals before line 36 has run
NoStatus == [name |-> "", value |-> ""]

----------------------------------------------------------------------------
(* Pure helpers of _text_checker. *)

\* job_monitor's default interval (line 101)
DefaultInterval == 5

\* the interval the loop falls back to (lines 51, 53, 56)
ResetInterval == 2

\* line 43 with "ERROR" left out of the list
TerminalNames_NoError == {"DONE", "CANCELLED"}

\* line 43: status.name not in ["DONE", "CANCELLED", "ERROR"]
TerminalNames == {"DONE", "CANCELLED", "ERROR"}

LoopContinues(s) == s.name \notin TerminalNames

\* " " * n
RECURSIVE Spaces(_)
Spaces(n) == IF n <= 0 THEN "" ELSE " " \o Spaces(n - 1)

\* "%s" % p for a queue position p
PyStr(p) == IF p = None THEN "None" ELSE ToString(p[1])

\* line 49 without the blank before the parenthesis
WithPosition_NoBlank(m, p) == m \o "(" \o PyStr(p) \o ")"

\* line 49: msg += " (%s)" % job.queue_position()
WithPosition(m, p) == m \o " (" \o PyStr(p) \o ")"

\* lines 42 and 65 with print's default end="\n"
StatusLine_DefaultEnd(ld, m) == ld \o "Job Status" \o ": " \o m \o "\n"

\* lines 42 and 65: "{}{}: {}".format(line_discipline, "Job Status", msg), end=""
StatusLine(ld, m) == ld \o "Job Status" \o ": " \o m

\* line 68: print("", file=output)
FinalLine == "\n"

\* line 53 without the floor of 2
MaxInterval_NoFloor(p) == p[1]

\* line 53: max(job.queue_position(), 2) for an integer position
MaxInterval(p) == IF p[1] > ResetInterval THEN p[1] ELSE ResetInterval

\* lines 59-62 without the padding of line 60
AdjustLength_NoPad(m, len) ==
    IF Len(m) > len THEN [msg |-> m, len |-> Len(m)] ELSE [msg |-> m, len |-> len]

\* lines 59-62: the message padded to msg_len, and the new msg_len
AdjustLength(m, len) ==
    IF Len(m) < len THEN [msg |-> m \o Spaces(len - Len(m)), len |-> len]
    ELSE IF Len(m) > len THEN [msg |-> m, len |-> Len(m)]
    ELSE [msg |-> m, len |-> len]

\* line 64 without the comparison with prev_msg
MustPrint_Always(m, prev, q) == ~q

\* line 64 without the quiet test
MustPrint_IgnoresQuiet(m, prev, q) == m # prev

\* line 64: msg != prev_msg and not quiet
MustPrint(m, prev, q) == m # prev /\ ~q

\* lines 43 and 67 with an early return when quiet
LoopTest_QuietReturns(s, q) ==
    IF q THEN "Finished"
    ELSE IF LoopContinues(s) THEN "sleep" ELSE "newline"

\* line 43 as "while True": no test before the sleep
LoopTest_NoTest(s, q) == "sleep"

\* lines 43 and 67: where control goes once an iteration (or line 42) is over
LoopTest(s, q) ==
    IF LoopContinues(s) THEN "sleep"
    ELSE IF ~q THEN "newline" ELSE "Finished"

----------------------------------------------------------------------------
(* The trace of calls. *)

Event(op, val) == [op |-> op, val |-> val]

StatusEvent(s, p) == [op |-> "status", val |-> s.name, pos |-> p]

Indices(op) == {i \in 1..Len(trace) : trace[i].op = op}

NumStatus == Cardinality(Indices("status"))

\* the statuses the job may return to the next status() call
Returnable ==
    IF NumStatus + 1 >= MaxQueries
    THEN {s \in JobStatus : s.name \in JOB_FINAL_STATES}
    ELSE JobStatus

\* the position the job has when it answers status() with s
PositionsAt(s) ==
    IF s.name = "QUEUED" /\ has_qp THEN Positions ELSE {None}

----------------------------------------------------------------------------
Init ==
    /\ pc = "job_monitor"
    /\ arg_interval \in IntervalArgs
    /\ quiet \in BOOLEAN
    /\ has_qp \in BOOLEAN
    /\ line_discipline \in LineDisciplines
    /\ interval = 0
    /\ interval_set = FALSE
    /\ status = NoStatus
    /\ msg = ""
    /\ prev_msg = ""
    /\ msg_len = 0
    /\ job_pos = None
    /\ raised = "none"
    /\ trace = <<>>

\* lines 99-105: job_monitor fixes the interval and calls _text_checker
JobMonitor ==
    /\ pc = "job_monitor"
    /\ IF arg_interval = None
       THEN interval_set' = FALSE /\ interval' = DefaultInterval
       ELSE interval_set' = TRUE /\ interval' = arg_interval[1]
    /\ pc' = "status0"
    /\ UNCHANGED <<arg_interval, quiet, has_qp, line_discipline, status, msg,
                   prev_msg, msg_len, job_pos, raised, trace>>

\* lines 36-41: the status query before the loop
\* lines 36-37 with the queue position added to the first message
InitialMessage_WithPosition(s, p) ==
    IF s.name = "QUEUED" /\ has_qp THEN WithPosition(s.value, p) ELSE s.value

\* line 37: msg = status.value, whatever the job's queue position p
InitialMessage(s, p) == s.value

InitialStatus ==
    /\ pc = "status0"
    /\ \E s \in Returnable : \E p \in PositionsAt(s) :
        /\ status' = s
        /\ job_pos' = p
        /\ msg' = InitialMessage(s, p)
        /\ prev_msg' = InitialMessage(s, p)
        /\ msg_len' = Len(InitialMessage(s, p))
        /\ trace' = Append(trace, StatusEvent(s, p))
        /\ pc' = IF ~quiet THEN "print0" ELSE LoopTest(s, quiet)
    /\ UNCHANGED <<arg_interval, quiet, has_qp, line_discipline, interval,
                   interval_set, raised>>

\* line 42: the initial status line
InitialPrint ==
    /\ pc = "print0"
    /\ trace' = Append(trace, Event("write", StatusLine(line_discipline, msg)))
    /\ pc' = LoopTest(status, quiet)
    /\ UNCHANGED <<arg_interval, quiet, has_qp, line_discipline, interval,
                   interval_set, status, msg, prev_msg, msg_len, job_pos, raised>>

\* line 44: time.sleep(interval)
Sleep ==
    /\ pc = "sleep"
    /\ trace' = Append(trace, Event("sleep", interval))
    /\ pc' = "status"
    /\ UNCHANGED <<arg_interval, quiet, has_qp, line_discipline, interval,
                   interval_set, status, msg, prev_msg, msg_len, job_pos, raised>>

\* lines 58-66 up to the print: pad m, then print or go to the loop test
EndIteration(s, m, iv) ==
    LET adj == AdjustLength(m, msg_len) IN
    /\ msg' = adj.msg
    /\ msg_len' = adj.len
    /\ interval' = iv
    /\ pc' = IF MustPrint(adj.msg, prev_msg, quiet) THEN "print"
             ELSE LoopTest(s, quiet)

\* lines 54-56 without the reset
ElseInterval_Keep == interval

\* lines 54-56: the interval after a status that takes the else branch
ElseInterval == IF ~interval_set THEN ResetInterval ELSE interval

\* line 48 without the hasattr test
AsksPosition_NoHasattr(s) == s.name = "QUEUED"

\* line 48: status.name == "QUEUED" and hasattr(job, "queue_position")
AsksPosition(s) == s.name = "QUEUED" /\ has_qp

\* lines 45-48, and 54-64 when the status does not ask for the position
LoopStatus ==
    /\ pc = "status"
    /\ NumStatus < MaxQueries
    /\ \E s \in Returnable : \E p \in PositionsAt(s) :
        /\ status' = s
        /\ job_pos' = p
        /\ trace' = Append(trace, StatusEvent(s, p))
        /\ IF AsksPosition(s)
           THEN /\ msg' = s.value
                /\ pc' = "qp1"
                /\ UNCHANGED <<interval, msg_len>>
           ELSE EndIteration(s, s.value, ElseInterval)
    /\ UNCHANGED <<arg_interval, quiet, has_qp, line_discipline, interval_set,
                   prev_msg, raised>>

\* line 49: the first queue_position() call answers with the position the
\* job had when it reported QUEUED
QueuePosition1 ==
    /\ pc = "qp1"
    /\ msg' = WithPosition(msg, job_pos)
    /\ trace' = Append(trace, Event("queue_position", job_pos))
    /\ pc' = "qp2"
    /\ UNCHANGED <<arg_interval, quiet, has_qp, line_discipline, interval,
                   interval_set, status, prev_msg, msg_len, job_pos, raised>>

\* lines 50-51 with the test of _interval_set that lines 52 and 55 make
NullInterval_Guarded == IF ~interval_set THEN ResetInterval ELSE interval

\* lines 50-51: the interval when queue_position() is None
NullInterval == ResetInterval

\* lines 50-52: the second queue_position() call; the job may have moved
QueuePosition2 ==
    /\ pc = "qp2"
    /\ \E p \in Positions :
        /\ job_pos' = p
        /\ trace' = Append(trace, Event("queue_position", p))
        /\ IF p = None
           THEN EndIteration(status, msg, NullInterval)
           ELSE IF ~interval_set
           THEN pc' = "qp3" /\ UNCHANGED <<msg, msg_len, interval>>
           ELSE EndIteration(status, msg, interval)
    /\ UNCHANGED <<arg_interval, quiet, has_qp, line_discipline, interval_set,
                   status, prev_msg, raised>>

\* line 53: the third queue_position() call; max(None, 2) raises TypeError
QueuePosition3 ==
    /\ pc = "qp3"
    /\ \E p \in Positions :
        /\ job_pos' = p
        /\ trace' = Append(trace, Event("queue_position", p))
        /\ IF p = None
           THEN /\ pc' = "Raised"
                /\ raised' = "TypeError"
                /\ UNCHANGED <<msg, msg_len, interval>>
           ELSE /\ EndIteration(status, msg, MaxInterval(p))
                /\ UNCHANGED raised
    /\ UNCHANGED <<arg_interval, quiet, has_qp, line_discipline, interval_set,
                   status, prev_msg>>

\* lines 65-66: the updated status line
LoopPrint ==
    /\ pc = "print"
    /\ trace' = Append(trace, Event("write", StatusLine(line_discipline, msg)))
    /\ prev_msg' = msg
    /\ pc' = LoopTest(status, quiet)
    /\ UNCHANGED <<arg_interval, quiet, has_qp, line_discipline, interval,
                   interval_set, status, msg, msg_len, job_pos, raised>>

\* lines 67-68: the final newline
FinalPrint ==
    /\ pc = "newline"
    /\ trace' = Append(trace, Event("write", FinalLine))
    /\ pc' = "Finished"
    /\ UNCHANGED <<arg_interval, quiet, has_qp, line_discipline, interval,
                   interval_set, status, msg, prev_msg, msg_len, job_pos, raised>>

\* an exception caught and the failed call made again
Propagate_Retry(kind) ==
    /\ raised' = kind
    /\ trace' = Append(trace, Event("raise", kind))
    /\ UNCHANGED <<pc, arg_interval, quiet, has_qp, line_discipline, interval,
                   interval_set, status, msg, prev_msg, msg_len, job_pos>>

\* an exception leaves _text_checker and job_monitor: nothing catches it
Propagate(kind) ==
    /\ pc' = "Raised"
    /\ raised' = kind
    /\ trace' = Append(trace, Event("raise", kind))
    /\ UNCHANGED <<arg_interval, quiet, has_qp, line_discipline, interval,
                   interval_set, status, msg, prev_msg, msg_len, job_pos>>

\* lines 36, 45: job.status() raises
StatusRaises ==
    /\ pc \in {"status0", "status"}
    /\ NumStatus < MaxQueries
    /\ Propagate("status")

\* lines 49, 50, 53: job.queue_position() raises
QueuePositionRaises ==
    /\ pc \in {"qp1", "qp2", "qp3"}
    /\ Propagate("queue_position")

\* lines 42, 65, 68: print(text, end=e, file=output) calls
\* output.write(text) and then output.write(e).  The first call raises:
\* nothing of this print has reached the output.
WriteRaises ==
    /\ pc \in {"print0", "print", "newline"}
    /\ Propagate("write")

\* what the first call of the pending print gives the output: the status
\* line on lines 42 and 65, the empty string (nothing) on line 68
FirstWrite ==
    IF pc = "newline" THEN << >>
    ELSE << Event("write", StatusLine(line_discipline, msg)) >>

\* lines 42, 65, 68: the second call of the print raises, output.write("")
\* on lines 42 and 65 and output.write("\n") on line 68.  The text of the
\* first call is on the output and the exception leaves _text_checker; on
\* line 65 the assignment prev_msg = msg of line 66 is not reached.
WriteEndRaises ==
    /\ pc \in {"print0", "print", "newline"}
    /\ pc' = "Raised"
    /\ raised' = "write"
    /\ trace' = trace \o FirstWrite \o << Event("raise", "write") >>
    /\ UNCHANGED <<arg_interval, quiet, has_qp, line_discipline, interval,
                   interval_set, status, msg, prev_msg, msg_len, job_pos>>

Next ==
    \/ JobMonitor
    \/ InitialStatus
    \/ InitialPrint
    \/ Sleep
    \/ LoopStatus
    \/ QueuePosition1
    \/ QueuePosition2
    \/ QueuePosition3
    \/ LoopPrint
    \/ FinalPrint
    \/ StatusRaises
    \/ QueuePositionRaises
    \/ WriteRaises
    \/ WriteEndRaises

Spec == Init /\ [][Next]_vars

----------------------------------------------------------------------------
(* Reading the trace. *)

\* the events of one kind, in order
Events(op) == SelectSeq(trace, LAMBDA e : e.op = op)

Writes == Events("write")

Sleeps == Events("sleep")

Statuses == Events("status")

\* a status line is any write but the final newline
IsStatusLine(e) == e.op = "write" /\ e.val # "\n"

IsNewline(e) == e.op = "write" /\ e.val = "\n"

IsFinalStatus(e) == e.op = "status" /\ e.val \in JOB_FINAL_STATES

EndsWith(s, suffix) ==
    /\ Len(s) >= Len(suffix)
    /\ SubSeq(s, Len(s) - Len(suffix) + 1, Len(s)) = suffix

\* the session is over: it returned or an exception left it
Over == pc \in {"Finished", "Raised"}

----------------------------------------------------------------------------
(* C1 *)

\* C1 as stated: in every Finished state the most recently fetched status is
\* DONE, CANCELLED or ERROR, and after a status with such a name has been
\* fetched there is no sleep, no status query and no status-line write.
C1_NothingAfterTerminal ==
    /\ pc = "Finished" => status.name \in JOB_FINAL_STATES
    /\ \A i, j \in 1..Len(trace) :
        (i < j /\ IsFinalStatus(trace[i])) =>
            /\ trace[j].op \notin {"sleep", "status"}
            /\ ~IsStatusLine(trace[j])

\* C1 amended: in every Finished state the most recently fetched status is
\* DONE, CANCELLED or ERROR, and after a status with such a name has been
\* fetched there is no sleep, no status query and no queue-position query;
\* the only writes after it are at most one status line (the line of that
\* status) and then the final newline.  Any other status keeps the loop
\* going: a session that is over without an exception fetched a final status.
C1_ReturnsOnlyAfterTerminal ==
    /\ pc = "Finished" =>
        /\ status.name \in JOB_FINAL_STATES
        /\ Len(Statuses) > 0
        /\ Statuses[Len(Statuses)].val = status.name
    /\ \A i \in 1..Len(trace) :
        IsFinalStatus(trace[i]) =>
            /\ \A j \in (i + 1)..Len(trace) :
                /\ trace[j].op \in {"write", "raise"}
                /\ IsStatusLine(trace[j]) => j = i + 1
            /\ pc \notin {"sleep", "status", "qp1", "qp2", "qp3"}
    /\ (pc \in {"newline", "Finished"}) => status.name \in JOB_FINAL_STATES

\* a session that went through the loop, wrote the line of the final status
\* after fetching it, and returned
C1_Witness ==
    /\ pc = "Finished"
    /\ Len(Sleeps) >= 2
    /\ \E i \in 1..Len(trace) :
        /\ IsFinalStatus(trace[i])
        /\ i < Len(trace)
        /\ IsStatusLine(trace[i + 1])

----------------------------------------------------------------------------
(* C2 *)

\* the exceptions that come from a collaborator's call failing
CollaboratorFailures == {"status", "queue_position", "write"}

\* C2 as stated: whatever statuses the job returns (the last one at the
\* latest being DONE, CANCELLED or ERROR), whatever quiet, interval and
\* queue positions, a session whose collaborators all answer goes on until
\* it is Finished (it never stops anywhere else), and it makes no status
\* query beyond the first final status.
C2_ReachesFinished ==
    /\ pc = "Raised" => raised \in CollaboratorFailures
    /\ Over \/ ENABLED Next
    /\ \A i \in 1..Len(Statuses) :
        Statuses[i].val \in JOB_FINAL_STATES => Len(Statuses) <= i

----------------------------------------------------------------------------
(* C3 *)

\* C3: when quiet is False and the session is Finished, the last call of
\* the session is the write of the newline, no other write is a newline,
\* and every write before it ends without a newline; in no state is a
\* newline written anywhere but as the last call of a Finished session.
C3_OneFinalNewline ==
    /\ (pc = "Finished" /\ ~quiet) =>
        /\ Len(trace) > 0
        /\ IsNewline(trace[Len(trace)])
        /\ Len(SelectSeq(trace, IsNewline)) = 1
        /\ \A i \in 1..(Len(trace) - 1) :
            trace[i].op = "write" => ~EndsWith(trace[i].val, "\n")
    /\ \A i \in 1..Len(trace) :
        /\ IsNewline(trace[i]) => (i = Len(trace) /\ pc = "Finished")
        /\ IsStatusLine(trace[i]) => ~EndsWith(trace[i].val, "\n")

\* a session that wrote the initial line, two updated lines and the newline
C3_Witness ==
    /\ pc = "Finished"
    /\ ~quiet
    /\ Len(Writes) >= 4
    /\ IsNewline(trace[Len(trace)])

----------------------------------------------------------------------------
(* C4 *)

\* C4: when quiet is True nothing is ever written to the output, and no
\* write is even attempted.
C4_QuietWritesNothing ==
    quiet =>
        /\ Len(Writes) = 0
        /\ raised # "write"
        /\ pc \notin {"print0", "print", "newline"}

\* a quiet session that returned after seeing the message change in the loop
C4_Witness ==
    /\ quiet
    /\ pc = "Finished"
    /\ Len(Statuses) >= 3
    /\ \E i \in 1..Len(Statuses) : Statuses[i].val # Statuses[1].val
    /\ msg # prev_msg

----------------------------------------------------------------------------
(* C5 *)

\* C5 as stated: when job_monitor is given an interval v, every sleep of
\* the session uses v.
C5_FixedInterval ==
    arg_interval # None =>
        \A i \in 1..Len(Sleeps) : Sleeps[i].val = arg_interval[1]

----------------------------------------------------------------------------
(* C6 *)

\* the status query that precedes the call at index j
LastStatusBefore(j) ==
    CHOOSE i \in 1..(j - 1) :
        /\ trace[i].op = "status"
        /\ \A k \in (i + 1)..(j - 1) : trace[k].op # "status"

\* what C6 says the interval is after the iteration whose status query is
\* at index i: the position p is the one the job reports to the call that
\* decides (the null check on line 50, then max on line 53)
C6_Expected(i) ==
    IF trace[i].val = "QUEUED" /\ has_qp
    THEN IF trace[i + 2].val = None THEN 2
         ELSE IF trace[i + 3].val[1] >= 2 THEN trace[i + 3].val[1] ELSE 2
    ELSE 2

\* C6: with no interval supplied the first sleep uses 5; a sleep after an
\* iteration that fetched QUEUED from a job with queue_position uses p when
\* the reported position p is >= 2, 2 when p < 2 and 2 when it is None; a
\* sleep after an iteration that fetched another status uses 2.
C6_AutoInterval ==
    arg_interval = None =>
        \A j \in 1..Len(trace) :
            trace[j].op = "sleep" =>
                IF \A k \in 1..(j - 1) : trace[k].op # "sleep"
                THEN trace[j].val = 5
                ELSE trace[j].val = C6_Expected(LastStatusBefore(j))

\* a session with no interval supplied that slept 5, then 3 after a queued
\* position of 3, then 2 after a queued position of None
C6_Witness ==
    /\ arg_interval = None
    /\ has_qp
    /\ Len(Sleeps) >= 3
    /\ Sleeps[1].val = 5
    /\ Sleeps[2].val = 3
    /\ Sleeps[3].val = 2
    /\ \E i \in 2..(Len(trace) - 3) :
        /\ trace[i].op = "status" /\ trace[i].val = "QUEUED"
        /\ trace[i + 1].op = "queue_position" /\ trace[i + 1].val = None
        /\ trace[i + 2].op = "queue_position" /\ trace[i + 2].val = None
        /\ trace[i + 3].op = "sleep"

----------------------------------------------------------------------------
(* C7 *)

StatusLines == SelectSeq(trace, IsStatusLine)

\* the length of the message part of a written status line
MessageLength(e) == Len(e.val) - Len(StatusLine(line_discipline, ""))

\* C7: of two consecutive status lines written in a session (the initial
\* line included) the second's message is at least as long as the first's;
\* no written message is longer than msg_len, the line about to be written
\* in the loop has a message of exactly msg_len characters, and so has the
\* last line written.
C7_PaddingInvariant ==
    /\ \A i \in 1..(Len(StatusLines) - 1) :
        MessageLength(StatusLines[i + 1]) >= MessageLength(StatusLines[i])
    /\ \A i \in 1..Len(StatusLines) : MessageLength(StatusLines[i]) <= msg_len
    /\ pc = "print" => Len(msg) = msg_len
    /\ (Len(StatusLines) > 0 /\ pc # "print" /\ raised # "write") =>
        MessageLength(StatusLines[Len(StatusLines)]) = msg_len

\* a session that wrote a line for a shorter message after a longer one:
\* RUNNING (23 characters), then QUEUED with its position padded to 23
C7_Witness ==
    /\ Len(StatusLines) >= 2
    /\ \E i \in 2..Len(trace) : \E j \in 1..(i - 1) :
        /\ trace[i].op = "status" /\ trace[i].val = "QUEUED"
        /\ trace[j].op = "status" /\ trace[j].val = "RUNNING"
    /\ status.name = "QUEUED"
    /\ pc = "sleep"
    /\ EndsWith(StatusLines[Len(StatusLines)].val, ")   ")

----------------------------------------------------------------------------
(* C8 *)

\* C8: when a call to job.status(), job.queue_position() or the output
\* write fails, the failure is the last thing that happens in the session:
\* the exception that leaves the session is that failure, and no status
\* query, queue-position query, sleep or write (no final newline either)
\* follows it.
C8_FailurePropagates ==
    /\ \A i \in 1..Len(trace) :
        trace[i].op = "raise" =>
            /\ i = Len(trace)
            /\ pc = "Raised"
            /\ raised = trace[i].val
    /\ raised # "none" => pc = "Raised"
    /\ pc = "Raised" => ~ENABLED Next

\* a session in which the write of an updated status line failed
C8_Witness ==
    /\ pc = "Raised"
    /\ raised = "write"
    /\ Len(Sleeps) >= 1
    /\ Len(Writes) >= 1
    /\ trace[Len(trace)].op = "raise"
    /\ ~LoopContinues(status)

----------------------------------------------------------------------------
(* C9 *)

\* the values of a sequence of events
Values(es) == [i \in 1..Len(es) |-> es[i].val]

QueuePositions == Events("queue_position")

\* the scenario of C9, run to its end: no interval, quiet=False, a job with
\* queue_position whose status() results are QUEUED (position 3), QUEUED
\* (position 1), RUNNING, DONE, the position staying what it was reported
Scenario ==
    /\ pc = "Finished"
    /\ arg_interval = None
    /\ ~quiet
    /\ has_qp
    /\ line_discipline = "\r"
    /\ Statuses = << [op |-> "status", val |-> "QUEUED", pos |-> Some(3)],
                     [op |-> "status", val |-> "QUEUED", pos |-> Some(1)],
                     [op |-> "status", val |-> "RUNNING", pos |-> None],
                     [op |-> "status", val |-> "DONE", pos |-> None] >>
    /\ \A i \in 1..Len(QueuePositions) : QueuePositions[i].val = Some(1)

\* the output C9 expects: four distinct status lines, then one newline
FourLinesAndNewline ==
    /\ Len(Writes) = 5
    /\ \A i \in 1..4 : IsStatusLine(Writes[i])
    /\ \A i, j \in 1..4 : i # j => Writes[i] # Writes[j]
    /\ IsNewline(Writes[5])

\* the values the interval takes in a session that is over: the value each
\* sleep used, then the value it was left with
IntervalValues == Values(Sleeps) \o <<interval>>

\* C9 as stated: in the scenario the interval takes the values 5, 3, 2, 2
\* and the output is four distinct status lines ended by one newline.
C9_ScenarioAsStated ==
    Scenario => (IntervalValues = <<5, 3, 2, 2>> /\ FourLinesAndNewline)

\* C9 amended: in the scenario the interval takes the values 5 (the
\* default, used by the first sleep), 2 (position 1 < 2), 2 (RUNNING) and
\* 2 (DONE); position 3 of the first status is never read, so the interval
\* is never 3.  The output is the four distinct status lines of the four
\* statuses, ended by one newline.
C9_Scenario ==
    Scenario =>
        /\ IntervalValues = <<5, 2, 2, 2>>
        /\ Values(Sleeps) = <<5, 2, 2>>
        /\ FourLinesAndNewline
        /\ Values(Writes) = << "\rJob Status: job is queued",
                               "\rJob Status: job is queued (1)",
                               "\rJob Status: job is actively running",
                               "\rJob Status: job has successfully run",
                               "\n" >>

C9_Witness == Scenario

----------------------------------------------------------------------------
(* C10 *)

\* JobStatus[name].value
StatusValue(name) == (CHOOSE s \in JobStatus : s.name = name).value

\* the written line is the line of message m, padded with spaces or not
IsLineOf(text, m) ==
    LET k == Len(text) - Len(StatusLine(line_discipline, m)) IN
    /\ k >= 0
    /\ text = StatusLine(line_discipline, m \o Spaces(k))

\* the call at index j is the write of the line of the status fetched at i
WritesLineOf(i, j) ==
    /\ i < j
    /\ j <= Len(trace)
    /\ trace[i].op = "status"
    /\ IsStatusLine(trace[j])
    /\ \A k \in (i + 1)..(j - 1) : trace[k].op = "queue_position"

\* where the line of the status fetched at i can be: after the two or three
\* queue_position() calls of its iteration
LinePlaces(i) == {j \in (i + 3)..(i + 4) : WritesLineOf(i, j)}

\* the status fetched at index i is a re-queried QUEUED whose position the
\* session asked for
QueuedWithPosition(i) ==
    /\ 1 < i
    /\ i < Len(trace)
    /\ trace[i].op = "status"
    /\ trace[i].val = "QUEUED"
    /\ trace[i + 1].op = "queue_position"

\* the line of every re-queried QUEUED status carries the suffix that
\* Suffix gives for the position reported to line 49
SuffixWritten(Suffix(_)) ==
    \A i \in 1..Len(trace) :
        QueuedWithPosition(i) =>
            \A j \in LinePlaces(i) :
                IsLineOf(trace[j].val,
                         StatusValue("QUEUED") \o Suffix(trace[i + 1].val))

C10_SuffixAsStated(p) ==
    IF p = None THEN " (unknown)"
    ELSE IF p = Some(1) THEN " (1)" ELSE " (3)"

C10_SuffixAmended(p) ==
    IF p = None THEN " (None)"
    ELSE IF p = Some(1) THEN " (1)" ELSE " (3)"

\* C10 as stated: the message written for a re-queried QUEUED status of a
\* job with queue_position has the suffix " (unknown)" when the position
\* is null and " (p)" when it is the integer p.
C10_UnknownSuffix == SuffixWritten(C10_SuffixAsStated)

\* C10 amended: the message written for a re-queried QUEUED status of a
\* job with queue_position has the suffix " (None)" when the position is
\* null and " (p)" when it is the integer p (followed only by the spaces
\* that pad the message).
C10_NoneSuffix == SuffixWritten(C10_SuffixAmended)

\* a session that wrote the line of a QUEUED status with a null position
\* and, after it, the padded line of a QUEUED status with position 3
C10_Witness ==
    \E i, k \in 1..Len(trace) :
        /\ i < k
        /\ QueuedWithPosition(i)
        /\ LinePlaces(i) # {}
        /\ trace[i + 1].val = None
        /\ QueuedWithPosition(k)
        /\ LinePlaces(k) # {}
        /\ trace[k + 1].val = Some(3)

----------------------------------------------------------------------------
(* C11 *)

\* the sleep before the one at index j
SleepBefore(j) ==
    CHOOSE k \in 1..(j - 1) :
        /\ trace[k].op = "sleep"
        /\ \A l \in (k + 1)..(j - 1) : trace[l].op # "sleep"

\* the iteration whose status query is at index i fetched QUEUED from a job
\* with queue_position and found the position None on line 50
NullPosition(i) ==
    /\ trace[i].val = "QUEUED"
    /\ has_qp
    /\ trace[i + 2].val = None

\* C11: a sleep that follows an iteration which fetched QUEUED from a job
\* with queue_position and found the position None uses 2, whether the
\* interval was supplied or not; after any other iteration a supplied
\* interval is left as it was (the sleep uses what the sleep before used).
C11_NullForcesTwo ==
    \A j \in 1..Len(trace) :
        (trace[j].op = "sleep" /\ \E k \in 1..(j - 1) : trace[k].op = "sleep") =>
            IF NullPosition(LastStatusBefore(j))
            THEN trace[j].val = 2
            ELSE arg_interval # None => trace[j].val = trace[SleepBefore(j)].val

\* a session given interval 7 that slept 7, then 2 after a QUEUED status
\* with a null position, then 2 again after a QUEUED status at position 3
C11_Witness ==
    /\ arg_interval = Some(7)
    /\ Values(Sleeps) = <<7, 2, 2>>
    /\ Values(QueuePositions) = <<None, None, Some(3), Some(3)>>

----------------------------------------------------------------------------
(* C12 *)

\* C12: on a job without queue_position the session never calls
\* queue_position, every status line it writes is the bare text of the
\* status it was written for (padded with spaces or not), also while the
\* status is QUEUED, and with no interval supplied every loop iteration
\* leaves the interval at 2: the first sleep uses 5, every later one 2.
C12_NoAccessor ==
    ~has_qp =>
        /\ Len(QueuePositions) = 0
        /\ pc \notin {"qp1", "qp2", "qp3"}
        /\ raised \notin {"queue_position", "TypeError"}
        /\ \A j \in 1..Len(trace) :
            IsStatusLine(trace[j]) =>
                IsLineOf(trace[j].val,
                         StatusValue(trace[LastStatusBefore(j)].val))
        /\ arg_interval = None =>
            /\ \A k \in 1..Len(Sleeps) :
                Sleeps[k].val = IF k = 1 THEN 5 ELSE 2
            /\ Len(Statuses) >= 2 => interval = 2

\* a session on a job without queue_position, no interval supplied, that
\* wrote the line of a re-queried QUEUED status and slept again
C12_Witness ==
    /\ ~has_qp
    /\ arg_interval = None
    /\ Values(Sleeps) = <<5, 2>>
    /\ \E i \in 2..(Len(trace) - 1) :
        /\ trace[i].op = "status" /\ trace[i].val = "QUEUED"
        /\ IsStatusLine(trace[i + 1])

----------------------------------------------------------------------------
(* C13 *)

StartsWith(s, prefix) ==
    /\ Len(s) >= Len(prefix)
    /\ SubSeq(s, 1, Len(prefix)) = prefix

\* where the line of the status fetched at i is, if it was written
LineOf(i) == {j \in (i + 1)..(i + 4) : WritesLineOf(i, j)}

\* the queue position the iteration of the status fetched at i puts in its
\* message: <<p>>, or <<>> when it asks for none
Shown(i) ==
    IF i < Len(trace) /\ trace[i + 1].op = "queue_position"
    THEN <<trace[i + 1].val>>
    ELSE <<>>

\* the statuses fetched at i and at j > i are two re-queries in a row that
\* returned the same status and the same queue position
SameAgain(i, j) ==
    /\ 1 < i
    /\ i < j
    /\ trace[i].op = "status"
    /\ trace[j].op = "status"
    /\ i = LastStatusBefore(j)
    /\ trace[i].val = trace[j].val
    /\ Shown(i) = Shown(j)

\* C13: with quiet False a loop iteration writes a status line exactly when
\* its padded message differs from the last written message (prev_msg):
\* a write is pending only if they differ, and once the iteration is over
\* they are equal.  So no two consecutive written status lines are equal,
\* and a re-query that returns the same status and queue position as the
\* re-query before it writes nothing.  Every status line is the
\* line-discipline string, "Job Status: " and the message, and the last
\* one written carries prev_msg as long as no write has failed (a print
\* whose second write fails ends the session before prev_msg is assigned).
C13_WritesOnChange ==
    /\ pc = "print" => (msg # prev_msg /\ ~quiet)
    /\ (~quiet /\ pc \in {"sleep", "status", "newline", "Finished"}) =>
        msg = prev_msg
    /\ (Len(StatusLines) > 0 /\ raised # "write") =>
        StatusLines[Len(StatusLines)].val =
            line_discipline \o "Job Status: " \o prev_msg
    /\ \A i \in 1..(Len(StatusLines) - 1) :
        StatusLines[i].val # StatusLines[i + 1].val
    /\ \A i \in 1..Len(StatusLines) :
        StartsWith(StatusLines[i].val, line_discipline \o "Job Status: ")
    /\ \A j \in 1..Len(trace) :
        (trace[j].op = "status" /\ 1 < j /\ SameAgain(LastStatusBefore(j), j)) =>
            LineOf(j) = {}

\* a session with quiet False that wrote the line of a re-queried QUEUED
\* status at position 3, fetched the same again without writing, and returned
C13_Witness ==
    /\ ~quiet
    /\ pc = "Finished"
    /\ \E i, j \in 1..Len(trace) :
        /\ SameAgain(i, j)
        /\ Shown(i) = <<Some(3)>>
        /\ LineOf(i) # {}
        /\ LineOf(j) = {}

----------------------------------------------------------------------------
(* C14 *)

\* the status queries and sleeps of the session, in order
QueriesAndSleeps == SelectSeq(trace, LAMBDA e : e.op \in {"status", "sleep"})

\* the status query after a sleep failed
StatusFailed(e) == e.op = "raise" /\ e.val = "status"

\* C14: status queries and sleeps alternate, starting with a status query;
\* every sleep is followed at once by a status query (which answers or
\* fails); a session that returned ended on a status query and made one
\* more status query than sleeps.  If the first status fetched is final,
\* the session makes that one query and no sleep, and with quiet False it
\* writes the initial line and then the newline, nothing else.
C14_Alternation ==
    /\ \A k \in 1..Len(QueriesAndSleeps) :
        QueriesAndSleeps[k].op = IF k % 2 = 1 THEN "status" ELSE "sleep"
    /\ \A j \in 1..(Len(trace) - 1) :
        trace[j].op = "sleep" =>
            (trace[j + 1].op = "status" \/ StatusFailed(trace[j + 1]))
    /\ (Len(trace) > 0 /\ trace[Len(trace)].op = "sleep") => pc = "status"
    /\ pc = "Finished" =>
        /\ Len(Statuses) = Len(Sleeps) + 1
        /\ QueriesAndSleeps[Len(QueriesAndSleeps)].op = "status"
    /\ (Len(trace) > 0 /\ IsFinalStatus(trace[1])) =>
        /\ Len(Statuses) = 1
        /\ Len(Sleeps) = 0
        /\ pc = "Finished" =>
            IF quiet
            THEN trace = <<trace[1]>>
            ELSE trace = << trace[1],
                            Event("write", line_discipline \o "Job Status: "
                                               \o StatusValue(trace[1].val)),
                            Event("write", "\n") >>

\* a session that returned after four status queries and three sleeps
C14_Witness ==
    /\ pc = "Finished"
    /\ Len(Sleeps) = 3
    /\ Len(Statuses) = 4

----------------------------------------------------------------------------
(* C15 *)

\* C15 as stated: in a loop iteration on a QUEUED status, the position put
\* in the message (the call on line 49) is the position that decides the
\* null check (the call on line 50) and the next interval (the call on
\* line 53).
C15_OnePosition ==
    \A i \in 1..Len(trace) :
        QueuedWithPosition(i) =>
            \A j \in (i + 2)..(i + 3) :
                (j <= Len(trace) /\ trace[j].op = "queue_position") =>
                    trace[j].val = trace[i + 1].val

----------------------------------------------------------------------------
(* C16 *)

\* what the session does apart from writing: its status queries,
\* queue-position queries and sleeps, and the failure of one of these
Unwritten ==
    SelectSeq(trace, LAMBDA e : e.op \in {"status", "queue_position", "sleep"}
                                  \/ (e.op = "raise" /\ e.val # "write"))

\* The call that follows the first k calls of N, as a function of what the
\* job answered, of has_qp and of the interval argument alone: "none" when
\* the session is over.  quiet is no argument of it.
C16_NextOp(N, k) ==
    IF k = 0 THEN "status"
    ELSE LET e == N[k] IN
         CASE e.op = "raise" -> "none"
           [] e.op = "sleep" -> "status"
           [] e.op = "status" ->
                IF e.val \in {"DONE", "CANCELLED", "ERROR"} THEN "none"
                ELSE IF k > 1 /\ e.val = "QUEUED" /\ has_qp
                THEN "queue_position"
                ELSE "sleep"
           [] e.op = "queue_position" ->
                IF N[k - 1].op = "status" THEN "queue_position"
                ELSE IF N[k - 2].op = "status"
                THEN IF e.val = None THEN "sleep"
                     ELSE IF arg_interval = None THEN "queue_position"
                     ELSE "sleep"
                ELSE IF e.val = None THEN "none" ELSE "sleep"

\* The interval after the first k calls of N, as a function of the same.
RECURSIVE C16_IntervalAfter(_, _)
C16_IntervalAfter(N, k) ==
    IF k = 0 THEN (IF arg_interval = None THEN 5 ELSE arg_interval[1])
    ELSE LET e == N[k]
             before == C16_IntervalAfter(N, k - 1)
         IN
         CASE e.op = "status" ->
                IF k = 1 \/ (e.val = "QUEUED" /\ has_qp) THEN before
                ELSE IF arg_interval = None THEN 2 ELSE before
           [] e.op = "queue_position" ->
                IF N[k - 1].op = "status" THEN before
                ELSE IF N[k - 2].op = "status"
                THEN IF e.val = None THEN 2 ELSE before
                ELSE IF e.val = None THEN before
                ELSE IF e.val[1] > 2 THEN e.val[1] ELSE 2
           [] OTHER -> before

\* the call e is the call op, answered or failed
C16_Is(e, op) == e.op = op \/ (e.op = "raise" /\ e.val = op)

\* the call the session is about to make, but for writes
C16_About ==
    CASE pc \in {"job_monitor", "status0", "status"} -> "status"
      [] pc \in {"qp1", "qp2", "qp3"} -> "queue_position"
      [] pc = "sleep" -> "sleep"
      [] OTHER -> "none"

\* the calls made so far and the interval in force are the ones the job's
\* answers, has_qp and the interval argument determine
C16_SameCalls ==
    LET N == Unwritten IN
    /\ \A k \in 0..(Len(N) - 1) :
        /\ C16_Is(N[k + 1], C16_NextOp(N, k))
        /\ N[k + 1].op = "sleep" => N[k + 1].val = C16_IntervalAfter(N, k)
    /\ (pc \notin {"job_monitor", "qp1", "qp2", "qp3"}) =>
        interval = C16_IntervalAfter(N, Len(N))

\* between two writes the session is about to make the call, or is at the
\* end, that the job's answers, has_qp and the interval argument determine
C16_SamePoint ==
    (pc \notin {"print0", "print", "newline"}) =>
        C16_About = C16_NextOp(Unwritten, Len(Unwritten))

\* C16 (as amended): quiet changes the output only, as long as every write
\* to the output succeeds.  Whatever quiet is, the status queries,
\* queue-position queries and sleeps of a session and the interval of every
\* sleep are the same function of the job's answers, of has_qp and of the
\* interval argument, and so is the point where the session ends unless a
\* write has failed; so a session with quiet True and one with quiet False
\* on the same job behaviour and interval argument, no write failing, make
\* the same calls and end at the same point.
C16_QuietOnlyOutput ==
    /\ C16_SameCalls
    /\ raised # "write" => C16_SamePoint

\* C16 (as stated): the same with no condition on the writes; a session
\* with quiet False whose write fails ends there, before the calls the
\* session with quiet True goes on to make.
C16_QuietOnlyOutputAsStated ==
    /\ C16_SameCalls
    /\ C16_SamePoint

\* a quiet session on a job whose message changed in every iteration, which
\* slept 5, 3 and 2 and returned
C16_Witness ==
    /\ quiet
    /\ pc = "Finished"
    /\ has_qp
    /\ Values(Sleeps) = <<5, 3, 2>>
    /\ Len(QueuePositions) >= 3

----------------------------------------------------------------------------
(* C17 *)

\* the interval job_monitor starts with: 5, or the interval argument
StartingInterval == IF arg_interval = None THEN 5 ELSE arg_interval[1]

\* the session has slept before the event at i
SleptBefore(i) == \E j \in 1..(i - 1) : trace[j].op = "sleep"

\* C17: the queue position is consulted only for statuses fetched inside
\* the loop.  Every call of queue_position, answered or failed, comes after
\* a sleep; every status line written before the first sleep is the line
\* discipline, "Job Status: " and the bare text of the first status, even
\* when that status is QUEUED on a job with queue_position; with quiet False
\* that line is the first thing done after the first status query; and the
\* first sleep has the starting interval, 5 or the interval argument,
\* whatever the queue position of the job at the first status query.
C17_PositionOnlyInLoop ==
    /\ \A i \in 1..Len(trace) :
        C16_Is(trace[i], "queue_position") => SleptBefore(i)
    /\ \A i \in 1..Len(trace) :
        (IsStatusLine(trace[i]) /\ ~SleptBefore(i)) =>
            /\ i = 2
            /\ trace[i].val = line_discipline \o "Job Status: "
                                  \o StatusValue(trace[1].val)
    /\ (~quiet /\ Len(trace) >= 2) => C16_Is(trace[2], "write")
    /\ Len(Sleeps) > 0 => Sleeps[1].val = StartingInterval
    /\ (pc \in {"status0", "print0"} \/ (Len(Sleeps) = 0 /\ pc = "sleep")) =>
        interval = StartingInterval

\* a session with quiet False on a job with queue_position, no interval
\* argument, whose first status was QUEUED at position 3: it has written the
\* first line and slept for the first time
C17_Witness ==
    /\ ~quiet
    /\ has_qp
    /\ arg_interval = None
    /\ Len(trace) = 3
    /\ trace[1].op = "status"
    /\ trace[1].val = "QUEUED"
    /\ trace[1].pos = Some(3)
    /\ trace[2] = Event("write", line_discipline \o "Job Status: job is queued")
    /\ trace[3] = Event("sleep", 5)

====
